---- MODULE Spec2Model ----
(***************************************************************************)
(* A model of the synthetic para-athlete dataset generator                 *)
(* (generate_para_athlete_data.py), of the script that writes its output   *)
(* file, and of the feature selection of the training script and the       *)
(* predictor that consume that file.                                       *)
(*                                                                         *)
(* Numbers.  The program computes in float64.  The model computes in fixed *)
(* point: every real value is an integer number of thousandths (Unit).     *)
(* A not-a-number result (0/0) is the value NaN, which every arithmetic    *)
(* operation propagates and every comparison answers FALSE for, as IEEE    *)
(* arithmetic does.                                                        *)
(*                                                                         *)
(* Randomness.  numpy's process-wide generator is a deterministic state    *)
(* machine: seed() sets its state, every draw advances it.  The model      *)
(* keeps that shape with a 16-bit linear congruential generator; normal    *)
(* deviates are read from a nine-point table that reaches four standard    *)
(* deviations either way, so that every np.clip has values to truncate.    *)
(***************************************************************************)
EXTENDS Integers, Sequences, FiniteSets, TLC

(***************************************************************************)
(* Bounds of the model.                                                    *)
(***************************************************************************)
\* sample counts tried by a caller: MinSamples..MaxSamples
MaxSamples == 3
\* the script asks for 1500 records; the model's script asks for this many
MainSamples == 3
\* draws other code may take from the process-wide generator between calls
MaxOther == 1

\* the script's seed
MainSeed == 42

(***************************************************************************)
(* Fixed-point arithmetic with NaN.                                        *)
(***************************************************************************)
Unit == 1000

NaN == 0 - (2 ^ 30)

add(a, b) == IF a = NaN \/ b = NaN THEN NaN ELSE a + b

sub(a, b) == IF a = NaN \/ b = NaN THEN NaN ELSE a - b

\* a * b, both in thousandths
mul(a, b) == IF a = NaN \/ b = NaN THEN NaN ELSE (a * b) \div Unit

\* a / b, both in thousandths; 0/0 is nan.  No division of the program has
\* a negative divisor, and none divides a non-zero value by zero.
div(a, b) ==
    IF a = NaN \/ b = NaN THEN NaN
    ELSE IF b = 0 THEN NaN
    ELSE (a * Unit) \div b

\* comparisons with nan are False
gt(a, b) == a # NaN /\ b # NaN /\ a > b

ge(a, b) == a # NaN /\ b # NaN /\ a >= b

\* np.clip on one value: truncate to the nearest bound, nan stays nan
clip(x, lo, hi) ==
    IF x = NaN THEN NaN
    ELSE IF x < lo THEN lo
    ELSE IF x > hi THEN hi
    ELSE x

\* round half to even to a multiple of step (np.round / ndarray.round)
rint(x, step) ==
    IF x = NaN THEN NaN
    ELSE LET q == x \div step
             r == x % step
         IN  IF 2 * r < step THEN q * step
             ELSE IF 2 * r > step THEN (q + 1) * step
             ELSE IF q % 2 = 0 THEN q * step
             ELSE (q + 1) * step

\* .round(decimals): the step of 0, 1 and 2 decimals in thousandths
round(x, decimals) ==
    rint(x, CASE decimals = 0 -> Unit
              [] decimals = 1 -> Unit \div 10
              [] decimals = 2 -> Unit \div 100)

\* a clip that discards the values outside [lo, hi] instead of truncating
np_clip_dropping(a, lo, hi) ==
    LET inside(x) == x = NaN \/ (lo <= x /\ x <= hi)
    IN  SelectSeq(a, inside)

\* np.clip over a whole array: one value out for every value in
np_clip(a, lo, hi) == [i \in DOMAIN a |-> clip(a[i], lo, hi)]

np_round(a, decimals) == [i \in DOMAIN a |-> round(a[i], decimals)]

RECURSIVE SumSeq(_)
SumSeq(s) == IF s = <<>> THEN 0 ELSE Head(s) + SumSeq(Tail(s))

Range(s) == {s[i] : i \in DOMAIN s}

SetMin(S) == CHOOSE x \in S : \A y \in S : x <= y

SetMax(S) == CHOOSE x \in S : \A y \in S : x >= y

\* ndarray.mean(): nan (with a warning) for an empty array
mean(a) == IF Len(a) = 0 THEN NaN ELSE SumSeq(a) \div Len(a)

RECURSIVE isqrt(_, _, _)
\* the largest r in lo..hi with r*r <= x
isqrt(x, lo, hi) ==
    IF lo >= hi THEN lo
    ELSE LET mid == (lo + hi + 1) \div 2
         IN  IF mid * mid <= x THEN isqrt(x, mid, hi) ELSE isqrt(x, lo, mid - 1)

\* ndarray.std(): the population standard deviation, sqrt(mean(|x-mean|^2)),
\* computed in tenths from n*sum(x^2) - sum(x)^2 so that it is zero exactly
\* when all values are equal; nan for an empty array
std(a) ==
    IF Len(a) = 0 THEN NaN
    ELSE LET n == Len(a)
             t == [i \in DOMAIN a |-> a[i] \div 100]
             v == n * SumSeq([i \in DOMAIN t |-> t[i] * t[i]]) - SumSeq(t) * SumSeq(t)
         IN  (isqrt(v, 0, 30000) * 100) \div n

(***************************************************************************)
(* np.percentile(a, q), the default (linear) method: sort, take the        *)
(* virtual index q/100*(n-1), interpolate between its two neighbours.      *)
(***************************************************************************)
RECURSIVE insert(_, _)
insert(x, s) ==
    IF s = <<>> THEN <<x>>
    ELSE IF x <= Head(s) THEN <<x>> \o s
    ELSE <<Head(s)>> \o insert(x, Tail(s))

RECURSIVE sorted(_)
sorted(a) == IF a = <<>> THEN <<>> ELSE insert(Head(a), sorted(Tail(a)))

\* the percentile taken from the wrong end: 100 - q for q
np_percentile_complement(a, q) ==
    LET s == sorted(a)
        n == Len(a)
        below == ((100 - q) * (n - 1)) \div 100
        part == ((100 - q) * (n - 1)) % 100
        above == IF part = 0 THEN below ELSE below + 1
    IN  s[below + 1] + (part * (s[above + 1] - s[below + 1])) \div 100

np_percentile(a, q) ==
    LET s == sorted(a)
        n == Len(a)
        below == (q * (n - 1)) \div 100
        part == (q * (n - 1)) % 100
        above == IF part = 0 THEN below ELSE below + 1
    IN  s[below + 1] + (part * (s[above + 1] - s[below + 1])) \div 100

(***************************************************************************)
(* The process-wide generator (np.random).                                 *)
(***************************************************************************)
RngStates == 0 .. 65535

\* a seeded generator ignores the state it had: the new state is a scramble
\* of the seed alone (numpy accepts seeds of 0 .. 2^32-1)
seed_ignored(state, random_state) == state

\* np.random.seed(random_state)
seed(state, random_state) == (random_state * 25173 + 13849) % 65536

\* one step of the generator
next(state) == ((30000 * (state + 1)) % 65537) - 1

RECURSIVE advance(_, _)
\* the state after m draws
advance(state, m) == IF m <= 0 THEN state ELSE advance(next(state), m - 1)

RECURSIVE stream(_, _)
\* the m raw values the next m draws return
stream(state, m) ==
    IF m <= 0 THEN <<>> ELSE <<next(state)>> \o stream(next(state), m - 1)

\* a raw value as a fraction of [0, 1), in thousandths
u01(raw) == (raw * Unit) \div 65536

\* a raw value as a standard normal deviate, in thousandths
ZTable == <<-4000, -2000, -1000, -500, 0, 500, 1000, 2000, 4000>>

z(raw) == ZTable[(raw * Len(ZTable)) \div 65536 + 1]

\* np.random.normal(loc, scale, size): one value per raw draw
normal(loc, scale, r) == [i \in DOMAIN r |-> loc + (scale * z(r[i])) \div Unit]

\* np.random.uniform(low, high, size)
uniform(low, high, r) == [i \in DOMAIN r |-> low + ((high - low) * u01(r[i])) \div Unit]

\* np.random.randint(low, high, size): integers of low..high-1, in thousandths
randint(low, high, r) == [i \in DOMAIN r |-> (low + (r[i] * (high - low)) \div 65536) * Unit]

\* np.random.choice(a, size): every label equally likely
choice(a, r) == [i \in DOMAIN r |-> a[(r[i] * Len(a)) \div 65536 + 1]]

RECURSIVE pick(_, _, _)
\* the first label whose cumulative weight exceeds u
pick(a, p, u) ==
    IF Len(a) = 1 \/ u < Head(p) THEN Head(a) ELSE pick(Tail(a), Tail(p), u - Head(p))

\* np.random.choice(a, size, p=p): labels weighted by p (thousandths)
choice_p(a, p, r) == [i \in DOMAIN r |-> pick(a, p, u01(r[i]))]

(***************************************************************************)
(* generate_para_athlete_data: the categorical pools.                      *)
(***************************************************************************)
genders == <<"Male", "Female", "Other">>

disability_types ==
    <<"Amputation", "Visual Impairment", "Cerebral Palsy",
      "Spinal Cord Injury", "Intellectual Impairment">>

sport_types ==
    <<"Wheelchair Racing", "Para Swimming", "Para Powerlifting",
      "Para Athletics (Track)", "Para Archery">>

(***************************************************************************)
(* generate_para_athlete_data: one operator per assignment.  env holds the *)
(* arrays the statement reads, n is n_samples and r the raw draws of the   *)
(* statement's sampling calls, in call order.                              *)
(***************************************************************************)
athlete_id(n) == [i \in 1 .. n |-> i]

\* .astype(int) after .round() changes no value
age(r) == np_round(np_clip(normal(27 * Unit, 6 * Unit, r), 16 * Unit, 50 * Unit), 0)

gender(r) == choice_p(genders, <<600, 350, 50>>, r)

disability_type(r) == choice(disability_types, r)

sport_type(r) == choice(sport_types, r)

training_hours_per_day(r) == np_round(uniform(500, 4500, r), 2)

rpe_score(r) == randint(3, 10, r)

training_days_per_week(r) == randint(3, 8, r)

weekly_training_load(env) ==
    LET h == env["training_hours_per_day"]
        e == env["rpe_score"]
        d == env["training_days_per_week"]
    IN  np_round([i \in DOMAIN h |-> mul(mul(h[i], e[i]), d[i])], 1)

sleep_hours(r) == np_round(np_clip(normal(7 * Unit, 1200, r), 4 * Unit, 9 * Unit), 1)

sleep_quality_base(env, r) ==
    LET s == env["sleep_hours"]
        noise == normal(0, 1 * Unit, r)
    IN  [i \in DOMAIN s |-> add(add(5 * Unit, mul(sub(s[i], 7 * Unit), 800)), noise[i])]

sleep_quality_score(env) == np_round(np_clip(env["sleep_quality_base"], 0, 10 * Unit), 1)

fitness_factor(env) ==
    LET w == env["weekly_training_load"]
    IN  [i \in DOMAIN w |-> div(sub(w[i], mean(w)), std(w))]

heart_rate_rest_l56(env, r) ==
    LET f == env["fitness_factor"]
        noise == normal(0, 5 * Unit, r)
    IN  [i \in DOMAIN f |-> add(sub(60 * Unit, mul(4 * Unit, f[i])), noise[i])]

heart_rate_rest_l57(env) == np_round(np_clip(env["heart_rate_rest"], 45 * Unit, 90 * Unit), 0)

heart_rate_avg_l59(env, r) ==
    LET h == env["heart_rate_rest"]
        noise == uniform(30 * Unit, 60 * Unit, r)
    IN  [i \in DOMAIN h |-> add(h[i], noise[i])]

heart_rate_max_l60(env, r) ==
    LET h == env["heart_rate_avg"]
        noise == uniform(10 * Unit, 30 * Unit, r)
    IN  [i \in DOMAIN h |-> add(h[i], noise[i])]

heart_rate_avg_l62(env) == np_round(np_clip(env["heart_rate_avg"], 90 * Unit, 180 * Unit), 0)

heart_rate_max_l63(env) == np_round(np_clip(env["heart_rate_max"], 120 * Unit, 210 * Unit), 0)

base_cal(env, r) ==
    LET h == env["training_hours_per_day"]
        noise == normal(0, 150 * Unit, r)
    IN  [i \in DOMAIN h |-> add(add(1800 * Unit, mul(h[i], 250 * Unit)), noise[i])]

daily_calorie_intake(env) == np_round(np_clip(env["base_cal"], 1500 * Unit, 4000 * Unit), 0)

protein_intake_g(env, n, r) ==
    LET h == env["training_hours_per_day"]
        per_hour == uniform(25 * Unit, 35 * Unit, SubSeq(r, 1, n))
        noise == normal(0, 10 * Unit, SubSeq(r, n + 1, 2 * n))
    IN  np_round(np_clip([i \in DOMAIN h |-> add(mul(h[i], per_hour[i]), noise[i])],
                         40 * Unit, 220 * Unit), 0)

carbohydrate_intake_g(env, n, r) ==
    LET h == env["training_hours_per_day"]
        per_hour == uniform(60 * Unit, 90 * Unit, SubSeq(r, 1, n))
        noise == normal(0, 30 * Unit, SubSeq(r, n + 1, 2 * n))
    IN  np_round(np_clip([i \in DOMAIN h |-> add(mul(h[i], per_hour[i]), noise[i])],
                         100 * Unit, 600 * Unit), 0)

fat_intake_g(env, r) ==
    LET c == env["daily_calorie_intake"]
        share == uniform(200, 300, r)
    IN  np_round(np_clip([i \in DOMAIN c |-> div(mul(c[i], share[i]), 9 * Unit)],
                         30 * Unit, 150 * Unit), 0)

water_intake_liters(env, n, r) ==
    LET h == env["training_hours_per_day"]
        per_hour == uniform(400, 700, SubSeq(r, 1, n))
        noise == normal(0, 300, SubSeq(r, n + 1, 2 * n))
    IN  np_round(np_clip([i \in DOMAIN h |->
                             add(add(1500, mul(h[i], per_hour[i])), noise[i])],
                         1 * Unit, 6 * Unit), 2)

hydration_level(env, r) ==
    LET w == env["water_intake_liters"]
        noise == normal(0, 8 * Unit, r)
    IN  np_round(np_clip([i \in DOMAIN w |->
                             add(add(60 * Unit, mul(sub(w[i], 2500), 12 * Unit)), noise[i])],
                         30 * Unit, 100 * Unit), 0)

\* weekly_training_load.min() and .max() raise ValueError on an empty array:
\* the statement is not reached with n = 0 (see Raises)
fatigue_raw(env, r) ==
    LET w == env["weekly_training_load"]
        s == env["sleep_hours"]
        lo == SetMin(Range(w))
        hi == SetMax(Range(w))
        noise == normal(3 * Unit, 1500, r)
    IN  [i \in DOMAIN w |->
            add(sub(mul(div(sub(w[i], lo), sub(hi, lo)), 6 * Unit),
                    mul(sub(s[i], 7 * Unit), 800)),
                noise[i])]

fatigue_level(env) == np_round(np_clip(env["fatigue_raw"], 0, 10 * Unit), 1)

muscle_soreness_raw(env, r) ==
    LET f == env["fatigue_level"]
        e == env["rpe_score"]
        noise == normal(0, 1 * Unit, r)
    IN  [i \in DOMAIN f |->
            add(add(mul(600, f[i]), mul(300, sub(e[i], 3 * Unit))), noise[i])]

muscle_soreness_level(env) == np_round(np_clip(env["muscle_soreness_raw"], 0, 10 * Unit), 1)

mood_score(env, r) ==
    LET f == env["fatigue_level"]
        q == env["sleep_quality_score"]
        noise == normal(0, 1 * Unit, r)
    IN  np_round(np_clip([i \in DOMAIN f |->
                             add(add(sub(7 * Unit, mul(300, f[i])), mul(200, q[i])), noise[i])],
                         0, 10 * Unit), 1)

motivation_level(env, r) ==
    LET w == env["weekly_training_load"]
        f == env["fatigue_level"]
        noise == normal(0, 1 * Unit, r)
    IN  np_round(np_clip([i \in DOMAIN f |->
                             add(sub(add(6 * Unit, IF gt(w[i], mean(w)) THEN 300 ELSE 0),
                                     mul(200, f[i])),
                                 noise[i])],
                         0, 10 * Unit), 1)

stress_level(env, r) ==
    LET f == env["fatigue_level"]
        q == env["sleep_quality_score"]
        noise == normal(0, 1 * Unit, r)
    IN  np_round(np_clip([i \in DOMAIN f |->
                             add(sub(add(3 * Unit, mul(400, f[i])), mul(200, q[i])), noise[i])],
                         0, 10 * Unit), 1)

stamina_raw(env, r) ==
    LET h == env["training_hours_per_day"]
        s == env["sleep_hours"]
        f == env["fatigue_level"]
        noise == normal(0, 8 * Unit, r)
    IN  [i \in DOMAIN h |->
            add(sub(add(add(40 * Unit, mul(2500, h[i])),
                        mul(3 * Unit, sub(s[i], 6 * Unit))),
                    mul(3 * Unit, sub(f[i], 5 * Unit))),
                noise[i])]

stamina_level(env) == np_round(np_clip(env["stamina_raw"], 0, 100 * Unit), 1)

performance_raw(env, r) ==
    LET s == env["stamina_level"]
        m == env["mood_score"]
        f == env["fatigue_level"]
        noise == normal(0, 5 * Unit, r)
    IN  [i \in DOMAIN s |->
            div(add(sub(add(mul(500, s[i]), mul(3 * Unit, m[i])), mul(2 * Unit, f[i])),
                    noise[i]),
                1200)]

performance_score(env) == np_round(np_clip(env["performance_raw"], 0, 100 * Unit), 1)

injury_risk_score_raw(env, r) ==
    LET f == env["fatigue_level"]
        m == env["muscle_soreness_level"]
        s == env["stress_level"]
        q == env["sleep_quality_score"]
        noise == normal(0, 50, r)
    IN  [i \in DOMAIN f |->
            add(sub(add(add(mul(80, f[i]), mul(60, m[i])), mul(40, s[i])), mul(30, q[i])),
                noise[i])]

injury_risk_score(env) == np_round(np_clip(env["injury_risk_score_raw"], 0, 1 * Unit), 2)

\* the label is 0 or 1 (.astype(int)), not thousandths
overtraining_alert(env) ==
    LET f == env["fatigue_level"]
        w == env["weekly_training_load"]
    IN  [i \in DOMAIN f |->
            IF ge(f[i], 7 * Unit) /\ gt(w[i], np_percentile(w, 70)) THEN 1 ELSE 0]

(***************************************************************************)
(* The body of generate_para_athlete_data, lines 23 to 168, as the list of *)
(* its assignments in program order: the line an assignment starts at, the *)
(* name it binds, the names it reads, the number of sampling calls it      *)
(* makes (each draws n_samples values), the np.random functions it calls,  *)
(* in evaluation order, and the statistics of weekly_training_load (.mean, *)
(* .std, .min, .max, np.percentile) it takes.                              *)
(***************************************************************************)
Statements ==
    << [line |-> 23, out |-> "athlete_id", reads |-> {}, calls |-> 0,
        samplers |-> <<>>, stats |-> {}],
       [line |-> 24, out |-> "age", reads |-> {}, calls |-> 1,
        samplers |-> <<"normal">>, stats |-> {}],
       [line |-> 25, out |-> "gender", reads |-> {}, calls |-> 1,
        samplers |-> <<"choice">>, stats |-> {}],
       [line |-> 26, out |-> "disability_type", reads |-> {}, calls |-> 1,
        samplers |-> <<"choice">>, stats |-> {}],
       [line |-> 27, out |-> "sport_type", reads |-> {}, calls |-> 1,
        samplers |-> <<"choice">>, stats |-> {}],
       [line |-> 31, out |-> "training_hours_per_day", reads |-> {}, calls |-> 1,
        samplers |-> <<"uniform">>, stats |-> {}],
       [line |-> 34, out |-> "rpe_score", reads |-> {}, calls |-> 1,
        samplers |-> <<"randint">>, stats |-> {}],
       [line |-> 37, out |-> "training_days_per_week", reads |-> {}, calls |-> 1,
        samplers |-> <<"randint">>, stats |-> {}],
       [line |-> 40, out |-> "weekly_training_load", reads |-> {"training_hours_per_day", "rpe_score", "training_days_per_week"}, calls |-> 0,
        samplers |-> <<>>, stats |-> {}],
       [line |-> 47, out |-> "sleep_hours", reads |-> {}, calls |-> 1,
        samplers |-> <<"normal">>, stats |-> {}],
       [line |-> 50, out |-> "sleep_quality_base", reads |-> {"sleep_hours"}, calls |-> 1,
        samplers |-> <<"normal">>, stats |-> {}],
       [line |-> 51, out |-> "sleep_quality_score", reads |-> {"sleep_quality_base"}, calls |-> 0,
        samplers |-> <<>>, stats |-> {}],
       [line |-> 55, out |-> "fitness_factor", reads |-> {"weekly_training_load"}, calls |-> 0,
        samplers |-> <<>>, stats |-> {"mean", "std"}],
       [line |-> 56, out |-> "heart_rate_rest", reads |-> {"fitness_factor"}, calls |-> 1,
        samplers |-> <<"normal">>, stats |-> {}],
       [line |-> 57, out |-> "heart_rate_rest", reads |-> {"heart_rate_rest"}, calls |-> 0,
        samplers |-> <<>>, stats |-> {}],
       [line |-> 59, out |-> "heart_rate_avg", reads |-> {"heart_rate_rest"}, calls |-> 1,
        samplers |-> <<"uniform">>, stats |-> {}],
       [line |-> 60, out |-> "heart_rate_max", reads |-> {"heart_rate_avg"}, calls |-> 1,
        samplers |-> <<"uniform">>, stats |-> {}],
       [line |-> 62, out |-> "heart_rate_avg", reads |-> {"heart_rate_avg"}, calls |-> 0,
        samplers |-> <<>>, stats |-> {}],
       [line |-> 63, out |-> "heart_rate_max", reads |-> {"heart_rate_max"}, calls |-> 0,
        samplers |-> <<>>, stats |-> {}],
       [line |-> 67, out |-> "base_cal", reads |-> {"training_hours_per_day"}, calls |-> 1,
        samplers |-> <<"normal">>, stats |-> {}],
       [line |-> 68, out |-> "daily_calorie_intake", reads |-> {"base_cal"}, calls |-> 0,
        samplers |-> <<>>, stats |-> {}],
       [line |-> 71, out |-> "protein_intake_g", reads |-> {"training_hours_per_day"}, calls |-> 2,
        samplers |-> <<"uniform", "normal">>, stats |-> {}],
       [line |-> 77, out |-> "carbohydrate_intake_g", reads |-> {"training_hours_per_day"}, calls |-> 2,
        samplers |-> <<"uniform", "normal">>, stats |-> {}],
       [line |-> 83, out |-> "fat_intake_g", reads |-> {"daily_calorie_intake"}, calls |-> 1,
        samplers |-> <<"uniform">>, stats |-> {}],
       [line |-> 89, out |-> "water_intake_liters", reads |-> {"training_hours_per_day"}, calls |-> 2,
        samplers |-> <<"uniform", "normal">>, stats |-> {}],
       [line |-> 95, out |-> "hydration_level", reads |-> {"water_intake_liters"}, calls |-> 1,
        samplers |-> <<"normal">>, stats |-> {}],
       [line |-> 103, out |-> "fatigue_raw", reads |-> {"weekly_training_load", "sleep_hours"}, calls |-> 1,
        samplers |-> <<"normal">>, stats |-> {"min", "max"}],
       [line |-> 109, out |-> "fatigue_level", reads |-> {"fatigue_raw"}, calls |-> 0,
        samplers |-> <<>>, stats |-> {}],
       [line |-> 112, out |-> "muscle_soreness_raw", reads |-> {"fatigue_level", "rpe_score"}, calls |-> 1,
        samplers |-> <<"normal">>, stats |-> {}],
       [line |-> 117, out |-> "muscle_soreness_level", reads |-> {"muscle_soreness_raw"}, calls |-> 0,
        samplers |-> <<>>, stats |-> {}],
       [line |-> 120, out |-> "mood_score", reads |-> {"fatigue_level", "sleep_quality_score"}, calls |-> 1,
        samplers |-> <<"normal">>, stats |-> {}],
       [line |-> 126, out |-> "motivation_level", reads |-> {"weekly_training_load", "fatigue_level"}, calls |-> 1,
        samplers |-> <<"normal">>, stats |-> {"mean"}],
       [line |-> 133, out |-> "stress_level", reads |-> {"fatigue_level", "sleep_quality_score"}, calls |-> 1,
        samplers |-> <<"normal">>, stats |-> {}],
       [line |-> 140, out |-> "stamina_raw", reads |-> {"training_hours_per_day", "sleep_hours", "fatigue_level"}, calls |-> 1,
        samplers |-> <<"normal">>, stats |-> {}],
       [line |-> 147, out |-> "stamina_level", reads |-> {"stamina_raw"}, calls |-> 0,
        samplers |-> <<>>, stats |-> {}],
       [line |-> 150, out |-> "performance_raw", reads |-> {"stamina_level", "mood_score", "fatigue_level"}, calls |-> 1,
        samplers |-> <<"normal">>, stats |-> {}],
       [line |-> 156, out |-> "performance_score", reads |-> {"performance_raw"}, calls |-> 0,
        samplers |-> <<>>, stats |-> {}],
       [line |-> 159, out |-> "injury_risk_score_raw", reads |-> {"fatigue_level", "muscle_soreness_level", "stress_level", "sleep_quality_score"}, calls |-> 1,
        samplers |-> <<"normal">>, stats |-> {}],
       [line |-> 166, out |-> "injury_risk_score", reads |-> {"injury_risk_score_raw"}, calls |-> 0,
        samplers |-> <<>>, stats |-> {}],
       [line |-> 168, out |-> "overtraining_alert", reads |-> {"fatigue_level", "weekly_training_load"}, calls |-> 0,
        samplers |-> <<>>, stats |-> {"percentile"}] >>

\* the fatigue statements (lines 103 and 109) moved up, before the resting
\* heart rate, which then reads fatigue_level
ProgramFatigueFirst ==
    LET at(line) == CHOOSE k \in DOMAIN Statements : Statements[k].line = line
    IN  SubSeq(Statements, 1, at(55))
        \o <<Statements[at(103)], Statements[at(109)]>>
        \o <<[Statements[at(56)] EXCEPT !.reads = @ \cup {"fatigue_level"}]>>
        \o SubSeq(Statements, at(57), at(95))
        \o SubSeq(Statements, at(112), Len(Statements))

\* line 59 moved above line 57: the average heart rate is computed from the
\* resting heart rate before that is clipped and rounded
ProgramAvgBeforeRestClip ==
    LET at(line) == CHOOSE k \in DOMAIN Statements : Statements[k].line = line
    IN  SubSeq(Statements, 1, at(56))
        \o <<Statements[at(59)], Statements[at(57)]>>
        \o SubSeq(Statements, at(60), Len(Statements))

\* the weekly training load assigned again (line 40 repeated) after the
\* fitness factor has taken its mean and standard deviation
ProgramLoadRewritten ==
    LET at(line) == CHOOSE k \in DOMAIN Statements : Statements[k].line = line
    IN  SubSeq(Statements, 1, at(55))
        \o <<Statements[at(40)]>>
        \o SubSeq(Statements, at(56), Len(Statements))

\* line 62 moved above line 60: the maximum heart rate is computed from the
\* clipped and rounded average
ProgramAvgClippedFirst ==
    LET at(line) == CHOOSE k \in DOMAIN Statements : Statements[k].line = line
    IN  SubSeq(Statements, 1, at(59))
        \o <<Statements[at(62)], Statements[at(60)]>>
        \o SubSeq(Statements, at(63), Len(Statements))

\* the statements are executed top to bottom
Program == Statements

\* the array the statement at `line` computes
Compute(line, env, n, r) ==
    CASE line = 23 -> athlete_id(n)
      [] line = 24 -> age(r)
      [] line = 25 -> gender(r)
      [] line = 26 -> disability_type(r)
      [] line = 27 -> sport_type(r)
      [] line = 31 -> training_hours_per_day(r)
      [] line = 34 -> rpe_score(r)
      [] line = 37 -> training_days_per_week(r)
      [] line = 40 -> weekly_training_load(env)
      [] line = 47 -> sleep_hours(r)
      [] line = 50 -> sleep_quality_base(env, r)
      [] line = 51 -> sleep_quality_score(env)
      [] line = 55 -> fitness_factor(env)
      [] line = 56 -> heart_rate_rest_l56(env, r)
      [] line = 57 -> heart_rate_rest_l57(env)
      [] line = 59 -> heart_rate_avg_l59(env, r)
      [] line = 60 -> heart_rate_max_l60(env, r)
      [] line = 62 -> heart_rate_avg_l62(env)
      [] line = 63 -> heart_rate_max_l63(env)
      [] line = 67 -> base_cal(env, r)
      [] line = 68 -> daily_calorie_intake(env)
      [] line = 71 -> protein_intake_g(env, n, r)
      [] line = 77 -> carbohydrate_intake_g(env, n, r)
      [] line = 83 -> fat_intake_g(env, r)
      [] line = 89 -> water_intake_liters(env, n, r)
      [] line = 95 -> hydration_level(env, r)
      [] line = 103 -> fatigue_raw(env, r)
      [] line = 109 -> fatigue_level(env)
      [] line = 112 -> muscle_soreness_raw(env, r)
      [] line = 117 -> muscle_soreness_level(env)
      [] line = 120 -> mood_score(env, r)
      [] line = 126 -> motivation_level(env, r)
      [] line = 133 -> stress_level(env, r)
      [] line = 140 -> stamina_raw(env, r)
      [] line = 147 -> stamina_level(env)
      [] line = 150 -> performance_raw(env, r)
      [] line = 156 -> performance_score(env)
      [] line = 159 -> injury_risk_score_raw(env, r)
      [] line = 166 -> injury_risk_score(env)
      [] line = 168 -> overtraining_alert(env)

\* the statement raises ValueError instead of binding its name: a sampling
\* call with a negative size ("negative dimensions are not allowed"), or
\* .min() of an empty array at line 104 ("zero-size array to reduction
\* operation minimum which has no identity")
Raises(st, n) ==
    \/ st.calls > 0 /\ n < 0
    \/ st.line = 103 /\ n = 0

\* the statement reads a local name that is not bound yet: Python raises
\* UnboundLocalError
Unbound(st, bound) == st.reads \ bound # {}

(***************************************************************************)
(* Lines 171 to 197: the dict `data`, in insertion order, and the          *)
(* DataFrame built from it.                                                *)
(***************************************************************************)
\* the dict with the record number as its first column
data_with_id(locals) ==
    << <<"athlete_id", locals["athlete_id"]>>,
       <<"age", locals["age"]>>,
       <<"gender", locals["gender"]>>,
       <<"disability_type", locals["disability_type"]>>,
       <<"sport_type", locals["sport_type"]>>,
       <<"training_days_per_week", locals["training_days_per_week"]>>,
       <<"sleep_hours", locals["sleep_hours"]>>,
       <<"heart_rate_rest", locals["heart_rate_rest"]>>,
       <<"daily_calorie_intake", locals["daily_calorie_intake"]>>,
       <<"protein_intake_g", locals["protein_intake_g"]>>,
       <<"water_intake_liters", locals["water_intake_liters"]>>,
       <<"hydration_level", locals["hydration_level"]>>,
       <<"fatigue_level", locals["fatigue_level"]>>,
       <<"stamina_level", locals["stamina_level"]>>,
       <<"performance_score", locals["performance_score"]>>,
       <<"injury_risk_score", locals["injury_risk_score"]>>,
       <<"overtraining_alert", locals["overtraining_alert"]>> >>

data(locals) ==
    << <<"age", locals["age"]>>,
       <<"gender", locals["gender"]>>,
       <<"disability_type", locals["disability_type"]>>,
       <<"sport_type", locals["sport_type"]>>,
       <<"training_days_per_week", locals["training_days_per_week"]>>,
       <<"sleep_hours", locals["sleep_hours"]>>,
       <<"heart_rate_rest", locals["heart_rate_rest"]>>,
       <<"daily_calorie_intake", locals["daily_calorie_intake"]>>,
       <<"protein_intake_g", locals["protein_intake_g"]>>,
       <<"water_intake_liters", locals["water_intake_liters"]>>,
       <<"hydration_level", locals["hydration_level"]>>,
       <<"fatigue_level", locals["fatigue_level"]>>,
       <<"stamina_level", locals["stamina_level"]>>,
       <<"performance_score", locals["performance_score"]>>,
       <<"injury_risk_score", locals["injury_risk_score"]>>,
       <<"overtraining_alert", locals["overtraining_alert"]>> >>

\* pd.DataFrame(d): the columns in the dict's order, each with its array
DataFrame(d) ==
    [columns |-> [j \in DOMAIN d |-> d[j][1]],
     values |-> [c \in {d[j][1] : j \in DOMAIN d} |->
                    d[CHOOSE j \in DOMAIN d : d[j][1] = c][2]]]

\* pd.DataFrame raises ValueError unless all arrays have the same length
SameLength(d) == \A j, k \in DOMAIN d : Len(d[j][2]) = Len(d[k][2])

\* no DataFrame
NoFrame == [columns |-> <<>>, values |-> <<>>]

\* the number of rows of a DataFrame
Rows(frame) == IF frame.columns = <<>> THEN 0 ELSE Len(frame.values[frame.columns[1]])

\* row i of a DataFrame, as to_csv(index=False) writes it: the values in
\* column order
Row(frame, i) == [j \in DOMAIN frame.columns |-> frame.values[frame.columns[j]][i]]

(***************************************************************************)
(* train_para_models.py and para_predictor.py: the feature selection.      *)
(***************************************************************************)
TARGET_COLUMNS == <<"stamina_level", "fatigue_level", "injury_risk_score">>

\* only the three targets excluded
EXCLUDE_targets_only == TARGET_COLUMNS

EXCLUDE_AS_FEATURES == TARGET_COLUMNS \o <<"performance_score", "overtraining_alert">>

\* [col for col in df.columns if col not in EXCLUDE_AS_FEATURES]
feature_cols(columns) ==
    LET keep(col) == col \notin Range(EXCLUDE_AS_FEATURES)
    IN  SelectSeq(columns, keep)

FEATURE_COLUMNS ==
    <<"age", "gender", "disability_type", "sport_type", "training_days_per_week",
      "sleep_hours", "heart_rate_rest", "daily_calorie_intake", "protein_intake_g",
      "water_intake_liters", "hydration_level">>

\* the fields of the /predict request body (api.py, ParaAthleteInput)
ParaAthleteInput ==
    {"age", "gender", "disability_type", "sport_type", "weight_kg", "height_cm",
     "training_days_per_week", "sleep_hours", "heart_rate_rest", "daily_calorie_intake",
     "protein_intake_g", "water_intake_liters", "hydration_level"}

\* the key sets predict_para_athlete is called with: the API's dict, exactly
\* the feature columns, and dicts that lack a feature
FeatureDicts ==
    {ParaAthleteInput, Range(FEATURE_COLUMNS),
     Range(FEATURE_COLUMNS) \ {"hydration_level"}, {"age", "gender"}}

(***************************************************************************)
(* State.                                                                  *)
(***************************************************************************)
VARIABLES
    rng,            \* np.random's process-wide state
    others,         \* draws other code took from it since the last call
    calls,          \* calls made so far: 0, 1, 2 (two or more)
    pc,             \* where the process is: idle, seed, body, build, to_csv, writing
    ip,             \* in the body: the index of the next statement of Program
    caller,         \* who called generate_para_athlete_data: import, main
    n_samples,      \* the call's arguments
    random_state,
    locals,         \* the call's arrays: name -> array
    executed,       \* the statements the call has executed, in order
    outcome,        \* of the last call: none, returned, raised, interrupted
    err,            \* the exception a raised call ended with
    df,             \* the DataFrame a returned call returned
    sampling,       \* the np.random calls the call has made, in order: the
                    \* function and the number of values asked for
    seen,           \* for each executed statement, the arrays it read
    kept_run,       \* an earlier call that returned: which call it was (1: the
                    \* first), its arguments, its np.random calls and its
                    \* DataFrame
    file,           \* para_athlete_synthetic_data.csv
    model_features, \* the columns the saved models were fitted on (<<>>: none saved)
    df_input,       \* the columns of the frame last handed to the models
    predict_err,    \* the exception the last predict_para_athlete call raised
    served,         \* the last request for a prediction: how it came in, the
                    \* keys handed to predict_para_athlete, the score the injury
                    \* risk model predicted and the label it was given
    cli,            \* the last prediction of predict_para_athlete_cli.py
    batch           \* a weekly_training_load column and what line 168 makes of
                    \* it: its 70th percentile, the records above it

vars ==
    <<rng, others, calls, pc, ip, caller, n_samples, random_state, locals, executed,
      sampling, seen, outcome, err, df, kept_run, file, model_features, df_input,
      predict_err, served, cli, batch>>

genvars ==
    <<calls, pc, ip, caller, n_samples, random_state, locals, executed, sampling, seen,
      outcome, err, df, kept_run>>

mlvars == <<model_features, df_input, predict_err>>

servevars == <<served, cli>>

NoServed ==
    [via |-> "none", body |-> {}, called |-> FALSE, keys |-> {}, score |-> 0,
     label |-> "none"]

NoCli == [columns |-> <<>>, score |-> 0, label |-> "none"]

NoBatch == [stage |-> "none", column |-> <<>>, threshold |-> 0, above |-> 0]

NoLocals == [c \in {} |-> <<>>]

NoFile == [exists |-> FALSE, header |-> <<>>, rows |-> <<>>]

NoRun ==
    [set |-> FALSE, call |-> 0, n |-> 0, seed |-> 0, sampling |-> <<>>, df |-> NoFrame]

\* the arguments a caller passes
SampleCounts == (0 - 1) .. MaxSamples

Seeds == {2, MainSeed}

\* the generator's state when a process starts: numpy seeds it from the
\* operating system's entropy
InitialRng == {1, 31337}

\* a process starts: nothing called, no file, no models
Start ==
    /\ rng \in InitialRng
    /\ others = 0
    /\ calls = 0
    /\ pc = "idle"
    /\ ip = 0
    /\ caller = "none"
    /\ n_samples = 0
    /\ random_state = 0
    /\ locals = NoLocals
    /\ executed = <<>>
    /\ sampling = <<>>
    /\ seen = <<>>
    /\ outcome = "none"
    /\ err = "none"
    /\ df = NoFrame
    /\ kept_run = NoRun
    /\ file = NoFile
    /\ df_input = <<>>
    /\ predict_err = "none"
    /\ served = NoServed
    /\ cli = NoCli

Init ==
    /\ Start
    /\ model_features = <<>>
    /\ batch = NoBatch

(***************************************************************************)
(* generate_para_athlete_data(n_samples, random_state).                    *)
(***************************************************************************)
Enter(who, n, s) ==
    /\ pc = "idle"
    /\ pc' = "seed"
    /\ ip' = 0
    /\ caller' = who
    /\ n_samples' = n
    /\ random_state' = s
    /\ locals' = NoLocals
    /\ executed' = <<>>
    /\ sampling' = <<>>
    /\ seen' = <<>>
    /\ outcome' = "none"
    /\ err' = "none"
    /\ df' = NoFrame
    /\ others' = 0
    /\ calls' = IF calls < 2 THEN calls + 1 ELSE calls
    /\ UNCHANGED <<kept_run, file, mlvars, servevars,
                   batch>>

\* a process that imported the module calls the function
Call(n, s) == Enter("import", n, s) /\ UNCHANGED rng

\* line 202: the script, a process of its own, calls it with 1500 (here
\* MainSamples) and 42
Main == Enter("main", MainSamples, MainSeed) /\ rng' \in InitialRng

\* the function without its line 9: the body starts on whatever state the
\* generator is in
SeedSkipped ==
    /\ pc = "seed"
    /\ pc' = "body"
    /\ ip' = 1
    /\ UNCHANGED <<rng, others, calls, caller, n_samples, random_state, locals, executed,
                   sampling, seen, outcome, err, df, kept_run, file, mlvars, servevars,
                   batch>>

\* line 9: np.random.seed(random_state)
Seed ==
    /\ pc = "seed"
    /\ rng' = seed(rng, random_state)
    /\ sampling' = Append(sampling, [op |-> "seed", size |-> 0])
    /\ pc' = "body"
    /\ ip' = 1
    /\ UNCHANGED <<others, calls, caller, n_samples, random_state, locals, executed,
                   seen, outcome, err, df, kept_run, file, mlvars, servevars,
                   batch>>

\* lines 23 to 168: the next assignment draws its values and binds its name
Statement ==
    /\ pc = "body"
    /\ ~Raises(Program[ip], n_samples)
    /\ ~Unbound(Program[ip], DOMAIN locals)
    /\ LET st == Program[ip]
           env == [c \in st.reads |-> locals[c]]
           draws == st.calls * n_samples
       IN  /\ locals' = (st.out :> Compute(st.line, env, n_samples, stream(rng, draws)))
                            @@ locals
           /\ rng' = advance(rng, draws)
           /\ executed' = Append(executed, st)
           /\ sampling' = sampling \o [k \in 1 .. st.calls |->
                                           [op |-> st.samplers[k], size |-> n_samples]]
           /\ seen' = Append(seen, env)
    /\ IF ip < Len(Program)
       THEN pc' = "body" /\ ip' = ip + 1
       ELSE pc' = "build" /\ ip' = 0
    /\ UNCHANGED <<others, calls, caller, n_samples, random_state, outcome, err, df,
                   kept_run, file, mlvars, servevars,
                   batch>>

\* the next assignment raises: the call ends, its arrays are lost
Raise ==
    /\ pc = "body"
    /\ Raises(Program[ip], n_samples) \/ Unbound(Program[ip], DOMAIN locals)
    /\ outcome' = "raised"
    /\ err' = IF Unbound(Program[ip], DOMAIN locals)
              THEN "UnboundLocalError"
              ELSE "ValueError"
    /\ pc' = "idle"
    /\ ip' = 0
    /\ locals' = NoLocals
    /\ UNCHANGED <<rng, others, calls, caller, n_samples, random_state, executed,
                   sampling, seen, df, kept_run, file, mlvars, servevars,
                   batch>>

\* lines 171 to 197: build the DataFrame and return it.  keep: whether this
\* call is the one later calls are compared with.
Return ==
    /\ pc = "build"
    /\ locals' = NoLocals
    /\ ip' = 0
    /\ IF SameLength(data(locals))
       THEN /\ outcome' = "returned"
            /\ err' = "none"
            /\ df' = DataFrame(data(locals))
            /\ pc' = IF caller = "main" THEN "to_csv" ELSE "idle"
            /\ \E keep \in BOOLEAN :
                   kept_run' =
                       IF keep /\ ~kept_run.set
                       THEN [set |-> TRUE, call |-> calls, n |-> n_samples,
                             seed |-> random_state, sampling |-> sampling,
                             df |-> DataFrame(data(locals))]
                       ELSE kept_run
       ELSE /\ outcome' = "raised"
            /\ err' = "ValueError"
            /\ pc' = "idle"
            /\ UNCHANGED <<df, kept_run>>
    /\ UNCHANGED <<rng, others, calls, caller, n_samples, random_state, executed,
                   sampling, seen, file, mlvars, servevars,
                   batch>>

\* other code draws from the process-wide generator between two calls
OtherSampling ==
    /\ pc = "idle"
    /\ others < MaxOther
    /\ rng' = next(rng)
    /\ others' = others + 1
    /\ UNCHANGED <<genvars, file, mlvars, servevars,
                   batch>>

(***************************************************************************)
(* The script, lines 200 to 207: df_para.to_csv(path, index=False) opens   *)
(* the file at its final path for writing, which truncates it, writes the  *)
(* header line and the rows, and closes it.                                *)
(***************************************************************************)
ToCsvOpen ==
    /\ pc = "to_csv"
    /\ file' = [exists |-> TRUE, header |-> <<>>, rows |-> <<>>]
    /\ pc' = "writing"
    /\ UNCHANGED <<rng, others, calls, ip, caller, n_samples, random_state, locals,
                   executed, sampling, seen, outcome, err, df, kept_run, mlvars, servevars,
                   batch>>

FileComplete(frame) == file.header = frame.columns /\ Len(file.rows) = Rows(frame)

ToCsvWrite ==
    /\ pc = "writing"
    /\ ~FileComplete(df)
    /\ file' = IF file.header = <<>>
               THEN [file EXCEPT !.header = df.columns]
               ELSE [file EXCEPT !.rows = Append(@, Row(df, Len(@) + 1))]
    /\ UNCHANGED <<rng, others, calls, pc, ip, caller, n_samples, random_state, locals,
                   executed, sampling, seen, outcome, err, df, kept_run, mlvars, servevars,
                   batch>>

\* the file is closed and the script's process ends
ToCsvClose ==
    /\ pc = "writing"
    /\ FileComplete(df)
    /\ pc' = "idle"
    /\ UNCHANGED <<rng, others, calls, ip, caller, n_samples, random_state, locals,
                   executed, sampling, seen, outcome, err, df, kept_run, file, mlvars, servevars,
                   batch>>

\* the script's process is interrupted (a signal, a power cut): it ends
\* where it is, and what it has written to the file stays
Interrupt ==
    /\ caller = "main"
    /\ pc # "idle"
    /\ pc' = "idle"
    /\ ip' = 0
    /\ locals' = NoLocals
    /\ executed' = <<>>
    /\ sampling' = <<>>
    /\ seen' = <<>>
    /\ df' = NoFrame
    /\ outcome' = "interrupted"
    /\ UNCHANGED <<rng, others, calls, caller, n_samples, random_state, err, kept_run,
                   file, mlvars, servevars,
                   batch>>

(***************************************************************************)
(* train_para_models.py: read the file, select the feature columns, fit    *)
(* and save one model per target.  train_test_split needs two rows.        *)
(***************************************************************************)
Train ==
    /\ pc = "idle"
    /\ file.exists
    /\ file.header # <<>>
    /\ Len(file.rows) >= 2
    /\ model_features' = feature_cols(file.header)
    /\ UNCHANGED <<rng, others, genvars, file, df_input, predict_err, servevars, batch>>

(***************************************************************************)
(* para_predictor.py: predict_para_athlete(features).  The module loads    *)
(* the saved models when it is imported.  What the injury risk model       *)
(* predicts is not modelled: any score, in thousandths.                    *)
(***************************************************************************)
Scores == {0, 329, 330, 331, 659, 660, 661, 1000}

\* lines 56 to 61 with <= for the first <
risk_label_inclusive(injury_risk_pred) ==
    IF injury_risk_pred <= (33 * Unit) \div 100 THEN "Low"
    ELSE IF injury_risk_pred < (66 * Unit) \div 100 THEN "Moderate"
    ELSE "High"

\* para_predictor.py, lines 56 to 61
risk_label(injury_risk_pred) ==
    IF injury_risk_pred < (33 * Unit) \div 100 THEN "Low"
    ELSE IF injury_risk_pred < (66 * Unit) \div 100 THEN "Moderate"
    ELSE "High"

\* a call of predict_para_athlete(features) that came in by `via` with the
\* request body `body`
predict_para_athlete(via, body, features, score) ==
    /\ pc = "idle"
    /\ model_features # <<>>
    /\ LET missing == SelectSeq(FEATURE_COLUMNS, LAMBDA col : col \notin features)
       IN  IF missing # <<>>
           THEN /\ predict_err' = "ValueError"
                /\ df_input' = <<>>
                /\ served' = [via |-> via, body |-> body, called |-> TRUE,
                              keys |-> features, score |-> 0, label |-> "none"]
           ELSE /\ predict_err' = "none"
                /\ df_input' = FEATURE_COLUMNS
                /\ served' = [via |-> via, body |-> body, called |-> TRUE,
                              keys |-> features, score |-> score,
                              label |-> risk_label(score)]
    /\ UNCHANGED <<rng, others, genvars, file, model_features, cli, batch>>

\* a caller of the module calls it with a dict of its own
Predict(features, score) == predict_para_athlete("direct", {}, features, score)

(***************************************************************************)
(* api.py: POST /predict.  FastAPI validates the body against              *)
(* ParaAthleteInput: a body that lacks a required field is answered with   *)
(* 422 and the route function is not called; input_data.dict() holds every *)
(* field of the schema, the omitted ones with their defaults, and no other *)
(* key.                                                                    *)
(***************************************************************************)
\* the fields with a default: hydration_level (line 76)
Defaults == {"hydration_level"}

\* the fields a request body holds
Bodies ==
    {ParaAthleteInput, ParaAthleteInput \ Defaults, ParaAthleteInput \ {"age"},
     ParaAthleteInput \cup {"bmi"}, Range(FEATURE_COLUMNS)}

\* .dict() holding only the fields the body set
input_data_dict_set_only(body) == body \cap ParaAthleteInput

input_data_dict(body) == (body \cap ParaAthleteInput) \cup Defaults

ApiPredict(body, score) ==
    IF ParaAthleteInput \ Defaults \subseteq body
    THEN predict_para_athlete("api", body, input_data_dict(body), score)
    ELSE /\ pc = "idle"
         /\ model_features # <<>>
         /\ served' = [via |-> "api", body |-> body, called |-> FALSE, keys |-> {},
                       score |-> 0, label |-> "none"]
         /\ UNCHANGED <<rng, others, genvars, file, mlvars, cli, batch>>

(***************************************************************************)
(* predict_para_athlete_cli.py: main().  The script loads the saved models *)
(* itself, asks for the eleven values, predicts and prints.                *)
(***************************************************************************)
\* the keys of `data`, lines 93 to 105
cli_data ==
    <<"age", "gender", "disability_type", "sport_type", "training_days_per_week",
      "sleep_hours", "heart_rate_rest", "daily_calorie_intake", "protein_intake_g",
      "water_intake_liters", "hydration_level">>

\* lines 115 to 120
cli_risk_label(injury_risk_pred) ==
    IF injury_risk_pred < (33 * Unit) \div 100 THEN "Low"
    ELSE IF injury_risk_pred < (66 * Unit) \div 100 THEN "Moderate"
    ELSE "High"

Cli(score) ==
    /\ pc = "idle"
    /\ model_features # <<>>
    /\ cli' = [columns |-> cli_data, score |-> score, label |-> cli_risk_label(score)]
    /\ UNCHANGED <<rng, others, genvars, file, mlvars, served, batch>>

(***************************************************************************)
(* Line 168 on a column of its own: the 70th percentile of                 *)
(* weekly_training_load and the records above it (the mask of the alert,   *)
(* taken with every fatigue_level at 10).                                  *)
(***************************************************************************)
MaxColumn == 4

\* loads, in thousandths: one decimal, as line 40 rounds them
Loads == {24000, 24800, 48100, 63800, 82100}

RECURSIVE SeqsOf(_, _)
SeqsOf(S, n) ==
    IF n = 0 THEN {<<>>} ELSE {Append(a, x) : a \in SeqsOf(S, n - 1), x \in S}

Columns == UNION {SeqsOf(Loads, n) : n \in 1 .. MaxColumn}

Percentile ==
    /\ batch.stage = "column"
    /\ batch' = [batch EXCEPT !.stage = "percentile",
                              !.threshold = np_percentile(batch.column, 70)]
    /\ UNCHANGED <<rng, others, genvars, file, mlvars, servevars>>

CountAbove ==
    /\ batch.stage = "percentile"
    /\ LET env == [c \in {"fatigue_level", "weekly_training_load"} |->
                      IF c = "fatigue_level"
                      THEN [i \in DOMAIN batch.column |-> 10 * Unit]
                      ELSE batch.column]
       IN  batch' = [batch EXCEPT !.stage = "counted",
                                  !.above = SumSeq(overtraining_alert(env))]
    /\ UNCHANGED <<rng, others, genvars, file, mlvars, servevars>>

(***************************************************************************)
(* Spec: a process that imported the module calls the function, any number *)
(* of times, with other sampling in between.                               *)
(***************************************************************************)
Next ==
    \/ \E n \in SampleCounts, s \in Seeds : Call(n, s)
    \/ Seed
    \/ Statement
    \/ Raise
    \/ Return
    \/ OtherSampling

Spec == Init /\ [][Next]_vars

(***************************************************************************)
(* ScriptSpec: the script is run, any number of times, and may be          *)
(* interrupted; the training script and the predictor use what it wrote.   *)
(***************************************************************************)
ScriptNext ==
    \/ Main
    \/ Seed
    \/ Statement
    \/ Return
    \/ ToCsvOpen
    \/ ToCsvWrite
    \/ ToCsvClose
    \/ Interrupt
    \/ Train
    \/ \E features \in FeatureDicts, score \in Scores : Predict(features, score)

ScriptSpec == Init /\ [][ScriptNext]_vars

(***************************************************************************)
(* ServeSpec: the processes that serve predictions.  They start with the   *)
(* models train_para_models.py saved: para_predictor.py and the CLI load   *)
(* them when they start.                                                   *)
(***************************************************************************)
ServeInit ==
    /\ Start
    /\ model_features = FEATURE_COLUMNS
    /\ batch = NoBatch

ServeNext ==
    \/ \E features \in FeatureDicts, score \in Scores : Predict(features, score)
    \/ \E body \in Bodies, score \in Scores : ApiPredict(body, score)
    \/ \E score \in Scores : Cli(score)

ServeSpec == ServeInit /\ [][ServeNext]_vars

(***************************************************************************)
(* PercentileSpec: line 168 applied to every column of up to MaxColumn     *)
(* loads.                                                                  *)
(***************************************************************************)
PercentileInit ==
    /\ Start
    /\ model_features = <<>>
    /\ batch \in {[stage |-> "column", column |-> a, threshold |-> 0, above |-> 0] :
                     a \in Columns}

PercentileNext == Percentile \/ CountAbove

PercentileSpec == PercentileInit /\ [][PercentileNext]_vars

(***************************************************************************)
(* Properties.                                                             *)
(***************************************************************************)
Returned == outcome = "returned"

\* the arrays of the call are all bound: the body has run to its end
BodyDone == pc = "build"

\* the columns the generator declares, in order
DeclaredColumns ==
    <<"age", "gender", "disability_type", "sport_type",
      "training_days_per_week",
      "sleep_hours",
      "heart_rate_rest",
      "daily_calorie_intake", "protein_intake_g", "water_intake_liters", "hydration_level",
      "fatigue_level",
      "stamina_level", "performance_score", "injury_risk_score",
      "overtraining_alert">>

\* C1: two calls with the same (sample_count, seed) return identical
\* datasets, whatever was drawn from the process-wide generator before
\* either: a call that returns with the arguments of the kept earlier call
\* returns the kept call's DataFrame (same columns, same order, same values).
C1_SameArgumentsSameDataset ==
    (Returned /\ kept_run.set /\ kept_run.n = n_samples /\ kept_run.seed = random_state)
        => df = kept_run.df

\* a later call has returned with the arguments of the process's first call,
\* which found the generator in another state
C1_Witness ==
    /\ Returned
    /\ kept_run.set
    /\ kept_run.call = 1
    /\ calls = 2
    /\ kept_run.n = n_samples
    /\ kept_run.seed = random_state
    /\ n_samples >= 2

\* C2: with sample_count >= 1 every array of the call, clipped or not, has
\* exactly sample_count values, and the returned dataset has exactly
\* sample_count rows in every column.
C2_RowCount ==
    n_samples >= 1 =>
        /\ \A c \in DOMAIN locals : Len(locals[c]) = n_samples
        /\ Returned =>
               /\ Rows(df) = n_samples
               /\ \A c \in DOMAIN df.values : Len(df.values[c]) = n_samples

\* a returned dataset in which an age and a resting heart rate were
\* truncated to their lower bounds
C2_Witness ==
    /\ Returned
    /\ n_samples >= 2
    /\ \E i \in 1 .. n_samples : df.values["age"][i] = 16 * Unit
    /\ \E i \in 1 .. n_samples : df.values["heart_rate_rest"][i] = 45 * Unit

InRange(frame, c, lo, hi) ==
    \A i \in DOMAIN frame.values[c] :
        frame.values[c][i] # NaN /\ lo <= frame.values[c][i] /\ frame.values[c][i] <= hi

\* C3: for every sample_count >= 1 and seed every record of the returned
\* dataset has each clipped column inside its declared closed range.
C3_RangesHold ==
    (Returned /\ n_samples >= 1) =>
        /\ InRange(df, "age", 16 * Unit, 50 * Unit)
        /\ InRange(df, "training_days_per_week", 3 * Unit, 7 * Unit)
        /\ InRange(df, "sleep_hours", 4 * Unit, 9 * Unit)
        /\ InRange(df, "heart_rate_rest", 45 * Unit, 90 * Unit)
        /\ InRange(df, "daily_calorie_intake", 1500 * Unit, 4000 * Unit)
        /\ InRange(df, "protein_intake_g", 40 * Unit, 220 * Unit)
        /\ InRange(df, "water_intake_liters", 1 * Unit, 6 * Unit)
        /\ InRange(df, "hydration_level", 30 * Unit, 100 * Unit)
        /\ InRange(df, "fatigue_level", 0, 10 * Unit)
        /\ InRange(df, "stamina_level", 0, 100 * Unit)
        /\ InRange(df, "performance_score", 0, 100 * Unit)
        /\ InRange(df, "injury_risk_score", 0, 1 * Unit)
        /\ \A i \in DOMAIN df.values["overtraining_alert"] :
               df.values["overtraining_alert"][i] \in {0, 1}

\* the k-th smallest value of a (k from 0), by counting: at most k values
\* are smaller and more than k are not larger
OrderStatistic(a, k) ==
    CHOOSE v \in Range(a) :
        /\ Cardinality({j \in DOMAIN a : a[j] < v}) <= k
        /\ Cardinality({j \in DOMAIN a : a[j] <= v}) > k

\* ten times the 70th percentile of a: the value at position 0.7 * (n - 1)
\* of the sorted batch, interpolated linearly
TenTimesP70(a) ==
    LET n == Len(a)
        k == (7 * (n - 1)) \div 10
        tenths == (7 * (n - 1)) % 10
        k1 == IF k + 1 <= n - 1 THEN k + 1 ELSE k
    IN  10 * OrderStatistic(a, k) + tenths * (OrderStatistic(a, k1) - OrderStatistic(a, k))

\* C4: for every record of a batch, overtraining_alert = 1 exactly when
\* fatigue_level >= 7 and the record's weekly_training_load is strictly
\* greater than the 70th percentile of weekly_training_load over that same
\* batch; otherwise it is 0.
C4_AlertIsRelativeToBatch ==
    (BodyDone /\ n_samples >= 1) =>
        \A i \in 1 .. n_samples :
            LET alert == locals["overtraining_alert"][i]
                f == locals["fatigue_level"][i]
                w == locals["weekly_training_load"]
            IN  /\ alert \in {0, 1}
                /\ alert = 1 <=>
                       /\ f # NaN
                       /\ f >= 7 * Unit
                       /\ 10 * w[i] > TenTimesP70(w)

\* a batch with a flagged record and with a record as tired whose load is
\* not above the batch's threshold
C4_Witness ==
    /\ BodyDone
    /\ n_samples >= 2
    /\ \E i \in 1 .. n_samples : locals["overtraining_alert"][i] = 1
    /\ \E i \in 1 .. n_samples :
           /\ locals["overtraining_alert"][i] = 0
           /\ locals["fatigue_level"][i] # NaN
           /\ locals["fatigue_level"][i] >= 7 * Unit

\* C5: for every sample_count and seed the returned dataset has exactly the
\* 16 declared columns, in the declared order.
C5_ColumnsFixed ==
    Returned => (Len(df.columns) = 16 /\ df.columns = DeclaredColumns)

\* two returned datasets that differ in their values
C5_Witness ==
    /\ Returned
    /\ kept_run.set
    /\ kept_run.n # n_samples
    /\ kept_run.seed # random_state

\* the columns a predictor must never be given
HeldOut ==
    {"stamina_level", "fatigue_level", "injury_risk_score", "performance_score",
     "overtraining_alert"}

WithoutHeldOut(columns) ==
    LET kept(c) == c \notin HeldOut
    IN  SelectSeq(columns, kept)

\* C6: the feature set given to a predictor, when the models are trained
\* and when they are queried, is exactly the generator's output columns
\* minus the five held-out columns, in the generator's order.
C6_FeaturesExcludeTargets ==
    /\ Returned =>
           /\ feature_cols(df.columns) = WithoutHeldOut(df.columns)
           /\ FEATURE_COLUMNS = WithoutHeldOut(df.columns)
    /\ model_features # <<>> =>
           /\ model_features = WithoutHeldOut(DeclaredColumns)
           /\ Range(model_features) \cap HeldOut = {}
    /\ df_input # <<>> =>
           /\ df_input = WithoutHeldOut(DeclaredColumns)
           /\ df_input = model_features
           /\ Range(df_input) \cap HeldOut = {}

\* models were trained on the written file and then queried
C6_Witness ==
    /\ model_features # <<>>
    /\ df_input # <<>>
    /\ predict_err = "none"
    /\ file.exists

\* C7: a call with a non-positive sample_count fails at once with a
\* ConfigurationError: no sampling call is made, nothing is returned.
C7_NonPositiveFailsAtOnce ==
    (caller = "import" /\ n_samples <= 0) =>
        /\ \A k \in DOMAIN executed : executed[k].calls = 0
        /\ ~Returned
        /\ outcome = "raised" => err = "ConfigurationError"

NumericColumns(frame) ==
    {c \in DOMAIN frame.values : c \notin {"gender", "disability_type", "sport_type"}}

\* C8: a call either returns a dataset of exactly sample_count fully
\* populated rows, or produces no dataset at all.
C8_CompleteOrNothing ==
    /\ Returned =>
           /\ Rows(df) = n_samples
           /\ \A c \in NumericColumns(df) :
                  \A i \in DOMAIN df.values[c] : df.values[c][i] # NaN
    /\ ~Returned => df = NoFrame

\* C9: after an interrupt the file at the final path is absent or holds a
\* complete dataset (a previous run's, or this run's).
C9_NoPartialFile ==
    outcome = "interrupted" =>
        \/ ~file.exists
        \/ file.header = DeclaredColumns /\ Len(file.rows) = MainSamples

\* the tier of each name of the dependency chain
Tier(c) ==
    CASE c \in {"athlete_id", "age", "gender", "disability_type", "sport_type",
                "training_hours_per_day", "rpe_score", "training_days_per_week"} -> 1
      [] c \in {"weekly_training_load", "sleep_hours", "sleep_quality_base",
                "sleep_quality_score"} -> 2
      [] c \in {"fitness_factor", "heart_rate_rest", "heart_rate_avg", "heart_rate_max",
                "base_cal", "daily_calorie_intake", "protein_intake_g",
                "carbohydrate_intake_g", "fat_intake_g", "water_intake_liters",
                "hydration_level"} -> 3
      [] OTHER -> 4

\* names that only hold a column's value before it is clipped
Unclipped ==
    {"sleep_quality_base", "base_cal", "fatigue_raw", "muscle_soreness_raw",
     "stamina_raw", "performance_raw", "injury_risk_score_raw"}

\* the names the executed statements that bind c read, c itself apart
DirectReads(c) ==
    UNION {executed[k].reads : k \in {j \in DOMAIN executed : executed[j].out = c}} \ {c}

\* the columns c is computed from: what it reads, with an unclipped value
\* replaced by what that was computed from
ColumnReads(c) ==
    UNION {IF d \in Unclipped THEN DirectReads(d) ELSE {d} : d \in DirectReads(c)} \ {c}

ColumnsBound == {executed[k].out : k \in DOMAIN executed} \ Unclipped

\* C10 as stated: every column is computed only from columns of strictly
\* lower tiers.
C10_StrictlyLowerTiers ==
    \A c \in ColumnsBound : \A d \in ColumnReads(c) : Tier(d) < Tier(c)

\* C10 as amended: every column is computed only from columns of its own or
\* a lower tier that an earlier statement has bound; no column reads a
\* column of a later tier.
C10_NoLaterTier ==
    /\ \A c \in ColumnsBound : \A d \in ColumnReads(c) : Tier(d) <= Tier(c)
    /\ \A k \in DOMAIN executed :
           \A d \in executed[k].reads : \E j \in 1 .. k - 1 : executed[j].out = d

\* the whole body has run, with reads inside a tier among them
C10_Witness ==
    /\ BodyDone
    /\ n_samples >= 1
    /\ "sleep_hours" \in ColumnReads("sleep_quality_score")
    /\ "heart_rate_rest" \in ColumnReads("heart_rate_avg")
    /\ "fatigue_level" \in ColumnReads("injury_risk_score")

\* the number of values the call has drawn so far
Drawn == SumSeq([k \in DOMAIN sampling |-> sampling[k].size])

\* the log holds one seeding, at its head, and every sampling call after it
\* asks for n_samples values
SeededOnce ==
    /\ sampling # <<>> =>
           /\ sampling[1].op = "seed"
           /\ \A k \in 2 .. Len(sampling) :
                  sampling[k].op # "seed" /\ sampling[k].size = n_samples
    /\ (pc \in {"body", "build"} \/ Returned) => sampling # <<>>

\* a step of the run moves the process-wide generator as the run's own calls
\* do: the seeding sets it from random_state, a statement takes the values
\* its sampling calls ask for from where the previous statement left it
OneStream ==
    /\ (pc = "seed" /\ pc' = "body") => rng' = seed(rng, random_state)
    /\ (pc = "body" /\ pc' \in {"body", "build"}) => rng' = advance(rng, Drawn' - Drawn)

\* two runs with the same sample_count made the same sampling calls
SameSequence ==
    (Returned /\ kept_run.set /\ kept_run.n = n_samples) => kept_run.sampling = sampling

\* C12: within one run the generator is seeded exactly once, before the
\* first sampling call; every sampling call draws its sample_count values from
\* that one stream; and the sequence of sampling calls is the same for every
\* run with the same sample_count, whatever the seed and the values drawn.
C12_SeededOnceFixedSequence ==
    /\ [](SeededOnce /\ SameSequence)
    /\ [][OneStream]_vars

\* two returned runs with the same sample_count, different seeds and
\* different values
C12_Witness ==
    /\ Returned
    /\ n_samples >= 2
    /\ kept_run.set
    /\ kept_run.call # calls
    /\ kept_run.n = n_samples
    /\ kept_run.seed # random_state
    /\ kept_run.df # df
    /\ Len(sampling) > 20

\* the executed statements that bind the name c
Bindings(c) == {k \in DOMAIN executed : executed[k].out = c}

NamesBound == {executed[k].out : k \in DOMAIN executed}

\* the executed statement that starts at `line`
At(line) == CHOOSE k \in DOMAIN executed : executed[k].line = line

\* C13 as stated: during a run every named column is written exactly once,
\* and every later stage that reads a column sees that column's final values.
C13_WrittenOnce ==
    BodyDone =>
        /\ \A c \in NamesBound : Cardinality(Bindings(c)) = 1
        /\ \A k \in DOMAIN executed :
               \A d \in executed[k].reads : seen[k][d] = locals[d]

RewrittenInPlace == {"heart_rate_rest", "heart_rate_avg", "heart_rate_max"}

\* C13 as amended: every name is written once, except heart_rate_rest,
\* heart_rate_avg and heart_rate_max, which are written twice, the second
\* time from their own first value (clip and round in place); and every stage
\* that reads another column sees its final values, except heart_rate_max
\* (line 60), which reads heart_rate_avg between its two writes.
C13_FinalExceptHeartRate ==
    BodyDone =>
        /\ \A c \in NamesBound \ RewrittenInPlace : Cardinality(Bindings(c)) = 1
        /\ \A c \in RewrittenInPlace :
               /\ Cardinality(Bindings(c)) = 2
               /\ \E k \in Bindings(c) : executed[k].reads = {c}
        /\ \A k \in DOMAIN executed :
               \A d \in executed[k].reads \ {executed[k].out} :
                   \/ seen[k][d] = locals[d]
                   \/ executed[k].line = 60 /\ d = "heart_rate_avg"

\* a finished body in which heart_rate_max was computed from values of
\* heart_rate_avg that are not its final ones, and heart_rate_avg from the
\* final resting heart rate
C13_Witness ==
    /\ BodyDone
    /\ n_samples >= 2
    /\ seen[At(60)]["heart_rate_avg"] # locals["heart_rate_avg"]
    /\ seen[At(59)]["heart_rate_rest"] = locals["heart_rate_rest"]

\* the executed statements that take a statistic of weekly_training_load
StatisticsUsers == {k \in DOMAIN executed : executed[k].stats # {}}

\* every statistic is taken of the whole, finished column: bound by one
\* earlier statement, with n_samples values, never bound again, and the same
\* array at every use
FinishedColumn ==
    \A k \in StatisticsUsers :
        /\ "weekly_training_load" \in executed[k].reads
        /\ Cardinality(Bindings("weekly_training_load")) = 1
        /\ \A j \in Bindings("weekly_training_load") : j < k
        /\ Len(seen[k]["weekly_training_load"]) = n_samples
        /\ \A j \in StatisticsUsers :
               seen[j]["weekly_training_load"] = seen[k]["weekly_training_load"]

\* C14 as stated: every batch statistic is taken of the finished
\* weekly_training_load column, which does not change between two uses, and
\* only tier-4 columns consume batch statistics.
C14_OnlyTierFour ==
    /\ FinishedColumn
    /\ \A k \in StatisticsUsers : Tier(executed[k].out) = 4

\* C14 as amended: every batch statistic is taken of the finished
\* weekly_training_load column, which does not change between two uses; the
\* consumers are fitness_factor (tier 3: mean and standard deviation) and
\* the tier-4 columns fatigue_level (min, max), motivation_level (mean) and
\* overtraining_alert (70th percentile).
C14_FinishedColumnStatistics ==
    /\ FinishedColumn
    /\ \A k \in StatisticsUsers :
           \/ executed[k].out = "fitness_factor" /\ executed[k].stats = {"mean", "std"}
           \/ executed[k].out = "fatigue_raw" /\ executed[k].stats = {"min", "max"}
           \/ executed[k].out = "motivation_level" /\ executed[k].stats = {"mean"}
           \/ executed[k].out = "overtraining_alert" /\ executed[k].stats = {"percentile"}
    /\ \A k \in StatisticsUsers : Tier(executed[k].out) \in {3, 4}

\* a finished body: all four consumers have taken their statistics of a
\* column of several values
C14_Witness ==
    /\ BodyDone
    /\ n_samples >= 2
    /\ Cardinality(StatisticsUsers) = 4
    /\ Tier(executed[At(55)].out) = 3

\* the values the heart-rate statements worked on: the final resting heart
\* rate, the average as line 59 left it, the maximum as line 60 left it
RawAvg == seen[At(62)]["heart_rate_avg"]

RawMax == seen[At(63)]["heart_rate_max"]

\* heart_rate_max of record i had it been computed from the clipped and
\* rounded heart_rate_avg, with the same second draw
MaxFromClippedAvg(i) ==
    round(clip(add(locals["heart_rate_avg"][i], sub(RawMax[i], RawAvg[i])),
               120 * Unit, 210 * Unit), 0)

\* C15: heart_rate_max is computed from heart_rate_avg as it is before its
\* own clip and rounding: for every record it is
\* round(clip(heart_rate_rest + u1 + u2, 120, 210)), u1 in [30,60], u2 in
\* [10,30].
C15_MaxFromUnclippedAvg ==
    BodyDone =>
        /\ At(60) < At(62)
        /\ seen[At(60)]["heart_rate_avg"] = RawAvg
        /\ \A i \in 1 .. n_samples :
               LET rest == locals["heart_rate_rest"][i]
                   u1 == sub(RawAvg[i], rest)
                   u2 == sub(RawMax[i], RawAvg[i])
               IN  /\ rest = seen[At(59)]["heart_rate_rest"][i]
                   /\ rest # NaN =>
                          /\ 30 * Unit <= u1 /\ u1 <= 60 * Unit
                          /\ 10 * Unit <= u2 /\ u2 <= 30 * Unit
                   /\ locals["heart_rate_max"][i] =
                          round(clip(add(add(rest, u1), u2), 120 * Unit, 210 * Unit), 0)

\* a record whose heart_rate_max is not what the clipped and rounded
\* heart_rate_avg would have given
C15_Witness ==
    /\ BodyDone
    /\ \E i \in 1 .. n_samples :
           /\ locals["heart_rate_rest"][i] # NaN
           /\ locals["heart_rate_avg"][i] # RawAvg[i]
           /\ locals["heart_rate_max"][i] # MaxFromClippedAvg(i)

\* C16 as stated: the number of records strictly above the batch's own
\* 70th percentile is within one record of 0.3 * N, whatever the values.
C16_AboutThirtyPercent ==
    batch.stage = "counted" =>
        LET N == Len(batch.column)
        IN  /\ 10 * batch.above - 3 * N <= 10
            /\ 3 * N - 10 * batch.above <= 10

Distinct(a) == Cardinality(Range(a)) = Len(a)

\* C16 as amended: the number of records strictly above the batch's own
\* 70th percentile is at most N - 1 - floor(0.7 * (N - 1)); it is exactly
\* that, and so within one record of 0.3 * N, when the values are distinct;
\* with repeated values it can be less, down to none.
C16_AtMostThirtyPercent ==
    batch.stage = "counted" =>
        LET N == Len(batch.column)
            most == N - 1 - (7 * (N - 1)) \div 10
        IN  /\ batch.above <= most
            /\ batch.above =
                   Cardinality({i \in 1 .. N : batch.column[i] > batch.threshold})
            /\ Distinct(batch.column) =>
                   /\ batch.above = most
                   /\ 10 * batch.above - 3 * N <= 10
                   /\ 3 * N - 10 * batch.above <= 10

\* a column of distinct loads with one record above, and the count made
C16_Witness ==
    /\ batch.stage = "counted"
    /\ Len(batch.column) >= 3
    /\ Distinct(batch.column)
    /\ batch.above = 1

\* C17: for every request body the /predict schema accepts, with
\* hydration_level or without, predict_para_athlete is handed every key of
\* FEATURE_COLUMNS and does not raise, and weight_kg and height_cm do not
\* reach the models; and a call of predict_para_athlete that lacks a key of
\* FEATURE_COLUMNS raises ValueError before any model is invoked.
C17_ApiNeverMissesAKey ==
    /\ (served.via = "api" /\ ParaAthleteInput \ Defaults \subseteq served.body) =>
           /\ served.called
           /\ Range(FEATURE_COLUMNS) \subseteq served.keys
           /\ predict_err = "none"
           /\ df_input = FEATURE_COLUMNS
           /\ {"weight_kg", "height_cm"} \subseteq served.keys
           /\ {"weight_kg", "height_cm"} \cap Range(df_input) = {}
           /\ served.label # "none"
    /\ (served.called /\ ~(Range(FEATURE_COLUMNS) \subseteq served.keys)) =>
           /\ predict_err = "ValueError"
           /\ df_input = <<>>
           /\ served.label = "none"

\* an accepted request that left hydration_level out was answered with a
\* prediction
C17_Witness ==
    /\ served.via = "api"
    /\ served.called
    /\ "hydration_level" \notin served.body
    /\ "hydration_level" \in served.keys
    /\ df_input = FEATURE_COLUMNS
    /\ served.label # "none"

\* the label the thresholds 0.33 and 0.66 give a score
Labelled(score, label) ==
    /\ label \in {"Low", "Moderate", "High"}
    /\ label = "Low" <=> score < 330
    /\ label = "Moderate" <=> (330 <= score /\ score < 660)
    /\ label = "High" <=> score >= 660

\* C18: every score gets exactly one label, Low below 0.33, Moderate from
\* 0.33 to below 0.66, High from 0.66; and predict_para_athlete and the CLI
\* give a score the same label.
C18_OneLabelPerScore ==
    /\ served.label # "none" => Labelled(served.score, served.label)
    /\ cli.label # "none" => Labelled(cli.score, cli.label)
    /\ (served.called /\ predict_err = "none") => served.label # "none"
    /\ (served.label # "none" /\ cli.label # "none" /\ served.score = cli.score) =>
           served.label = cli.label

\* both programs have labelled the score 0.33
C18_Witness ==
    /\ served.label = "Moderate"
    /\ cli.label = "Moderate"
    /\ served.score = 330
    /\ cli.score = 330

====
